---- MODULE Spec2Model ----
(***************************************************************************)
(* State-machine model of the TradingView websocket client                 *)
(* (src/src/client.js): the send queue and its flush gate, the auth step,  *)
(* the packet router of #parsePacket and the socket life cycle.            *)
(*                                                                         *)
(* The client is single threaded: every action below is one callback or    *)
(* one public call, run to completion.  Observers and session handlers are *)
(* opaque: they are recorded as effects and do not call back into the      *)
(* client.  The `ws` socket is modelled by its readyState and by the log   *)
(* of the calls made to ws.send(); a call made while the socket is not     *)
(* OPEN is recorded with the readyState it was made in (ws does not        *)
(* transmit such a frame).                                                 *)
(***************************************************************************)
EXTENDS Naturals, Sequences, FiniteSets

VARIABLES
  mode,        \* "anon" | "token": whether clientOptions.token was given
  cred,        \* state of the misc.getUser promise
  readyState,  \* this.#ws.readyState
  logged,      \* this.#logged
  sendQueue,   \* this.#sendQueue
  sessions,    \* keys of this.#sessions
  callbacks,   \* this.#callbacks: the observers of every channel, in
               \* registration order
  wire,        \* every call of this.#ws.send, in order, since construction
  fx,          \* effects of the most recent callback, in order
  decoded,     \* packets parseWSPacket yielded in the most recent callback
  calls        \* frames passed to send(), in call order, each with
               \* whether the credential exchange was pending at the call

vars == << mode, cred, readyState, logged, sendQueue, sessions, callbacks,
           wire, fx, decoded, calls >>

(* ------------------------------ bounds -------------------------------- *)
MaxSends == 2
MaxBatchLen == 2
MaxPongs == 1
MaxObs == 3

(* ------------------------- ws readyState values ----------------------- *)
CONNECTING == 0
OPEN == 1
CLOSING == 2
CLOSED == 3

(* ------------------------------ packets ------------------------------- *)
SessionIds == {"s1", "s2"}
\* the packet types the application passes to send(), in the order of its
\* calls: every call sends a packet of its own, so that the order and the
\* number of the frames written can be told from the frames
SendTypes == <<"a", "b", "c", "d">>
PingNs == {7}

\* decoded inbound packets, as protocol.parseWSPacket yields them: a number
\* (ping) or an object with optional m and optional p; m = "" stands for a
\* missing or empty m, hasP = FALSE for a missing p.
Ping(n) == [t |-> "ping", n |-> n, m |-> "", hasP |-> FALSE, p |-> << >>]
Msg(m, hasP, p) == [t |-> "msg", n |-> 0, m |-> m, hasP |-> hasP, p |-> p]
NoPacket == [t |-> "none", n |-> 0, m |-> "", hasP |-> FALSE, p |-> << >>]

Packets ==
  {Ping(n) : n \in PingNs}
  \cup {Msg("protocol_error", TRUE, <<"bad">>)}
  \cup {Msg("qsd", TRUE, <<"s1">>), Msg("", TRUE, <<"s1">>),
        Msg("qsd", TRUE, << >>)}

Batches == UNION {[1..k -> Packets] : k \in 1..MaxBatchLen}

\* number of pings in a batch, number of pongs in a ws.send log
NumPings(batch) == Cardinality({i \in 1..Len(batch) : batch[i].t = "ping"})
NumPongs(w) == Cardinality({i \in 1..Len(w) : w[i].via = "pong"})

\* outbound frames
Frame(m, p) == [kind |-> "packet", m |-> m, p |-> p, n |-> 0]
PongFrame(n) == [kind |-> "pong", m |-> "~h~", p |-> << >>, n |-> n]
AnonAuthFrame == Frame("set_auth_token", <<"unauthorized_user_token">>)
UserAuthFrame == Frame("set_auth_token", <<"user_auth_token">>)
IsAuthFrame(f) == f.kind = "packet" /\ f.m = "set_auth_token"

(* ----------------------------- observers ------------------------------ *)
\* the channels of #callbacks
Channels ==
  {"connected", "disconnected", "logged", "ping", "data", "error", "event"}

\* #callbacks as constructed: no observer on any channel
NoCallbacks == [ch \in Channels |-> << >>]

\* the number of observers registered on all channels
RECURSIVE SumLen(_, _)
SumLen(cbs, chs) ==
  IF chs = {} THEN 0
  ELSE LET ch == CHOOSE c \in chs : TRUE
       IN Len(cbs[ch]) + SumLen(cbs, chs \ {ch})
NumObservers(cbs) == SumLen(cbs, Channels)

(* ------------------------------ effects ------------------------------- *)
\* one effect of a callback; i is the position of the packet that caused it
\* in the decoded batch (0 outside #parsePacket), rs the socket's readyState
\* when it happened
Effect(k, i, ev, sess, pkt, rs) ==
  [k |-> k, i |-> i, ev |-> ev, sess |-> sess, pkt |-> pkt, rs |-> rs]

\* #handleEvent(ev, ...data)
handleEvent(ev, i, pkt, rs) == Effect("event", i, ev, "", pkt, rs)

\* handleError without the console fallback
handleErrorNoFallback(obs, i, pkt, rs) == handleEvent("error", i, pkt, rs)

\* #handleError(...msgs)
handleError(obs, i, pkt, rs) ==
  IF obs THEN handleEvent("error", i, pkt, rs)
         ELSE Effect("console", i, "error", "", pkt, rs)

\* this.#callbacks.error.length > 0
errObs == Len(callbacks["error"]) > 0

\* handleEventCalls that invokes the catch-all observers first
handleEventCallsCatchAllFirst(cbs, ev, pkt) ==
  [i \in 1..Len(cbs["event"]) |->
     [obs |-> cbs["event"][i], list |-> "event", name |-> ev, data |-> pkt]]
  \o [i \in 1..Len(cbs[ev]) |->
        [obs |-> cbs[ev][i], list |-> ev, name |-> "", data |-> pkt]]

\* the body of #handleEvent(ev, ...data): the observer calls it makes, in
\* order; name is the channel name passed before the data ("" when none)
handleEventCalls(cbs, ev, pkt) ==
  [i \in 1..Len(cbs[ev]) |->
     [obs |-> cbs[ev][i], list |-> ev, name |-> "", data |-> pkt]]
  \o [i \in 1..Len(cbs["event"]) |->
        [obs |-> cbs["event"][i], list |-> "event", name |-> ev, data |-> pkt]]

\* what one effect of a callback calls: the observers of a dispatch, or
\* console.error
Calls(cbs, e) ==
  IF e.k = "event" THEN handleEventCalls(cbs, e.ev, e.pkt)
  ELSE IF e.k = "console"
    THEN << [obs |-> 0, list |-> "console", name |-> "", data |-> e.pkt] >>
  ELSE << >>

(* ------------------------------- socket ------------------------------- *)
\* get isOpen
isOpen(rs) == rs = OPEN

\* ws.close(): a socket that is not closed yet starts closing
WsClose(rs) == IF rs = CLOSED THEN CLOSED ELSE CLOSING

\* ws.send(frame): the call is logged with the state it was made in
WsSend(w, frame, via, rs, lg) ==
  Append(w, [frame |-> frame, via |-> via, rs |-> rs, lg |-> lg])

(* ----------------------------- send queue ----------------------------- *)
\* CanFlush without the test of #logged
CanFlushNoAuth(rs, lg) == isOpen(rs)

\* CanFlush without the test of isOpen
CanFlushNoOpen(rs, lg) == lg

\* loop condition of sendQueue()
CanFlush(rs, lg) == isOpen(rs) /\ lg

\* Push that inserts at the head
PushFront(q, frame) == <<frame>> \o q

\* this.#sendQueue.push(frame) in send()
Push(q, frame) == Append(q, frame)

\* Unshift that inserts at the tail
UnshiftAtTail(q, frame) == Append(q, frame)

\* Unshift that overwrites the head of the queue
UnshiftOverHead(q, frame) ==
  IF Len(q) = 0 THEN <<frame>> ELSE <<frame>> \o Tail(q)

\* Unshift that inserts the frame twice
UnshiftTwice(q, frame) == <<frame, frame>> \o q

\* this.#sendQueue.unshift(frame) in the constructor
Unshift(q, frame) == <<frame>> \o q

\* Flush with an if in place of the while: at most one frame is written
FlushOne(q, w, rs, lg) ==
  IF CanFlush(rs, lg) /\ Len(q) > 0
    THEN [q |-> Tail(q), w |-> WsSend(w, Head(q), "queue", rs, lg)]
    ELSE [q |-> q, w |-> w]

\* sendQueue(): the state [q, w] after the while loop
RECURSIVE Flush(_, _, _, _)
Flush(q, w, rs, lg) ==
  IF CanFlush(rs, lg) /\ Len(q) > 0
    THEN Flush(Tail(q), WsSend(w, Head(q), "queue", rs, lg), rs, lg)
    ELSE [q |-> q, w |-> w]

(* ------------------------------- router ------------------------------- *)
\* Route that tests #logged before the session registry
RouteLoggedFirst(pkt, sess, lg) ==
  IF pkt.t = "ping" THEN "ping"
  ELSE IF pkt.m = "protocol_error" THEN "fatal"
  ELSE IF ~lg THEN "logged"
  ELSE IF /\ pkt.m # ""
          /\ pkt.hasP
          /\ Len(pkt.p) > 0
          /\ pkt.p[1] # ""
          /\ pkt.p[1] \in sess
    THEN "session"
  ELSE "data"

\* Route without the test of #logged
RouteAlwaysData(pkt, sess, lg) ==
  IF pkt.t = "ping" THEN "ping"
  ELSE IF pkt.m = "protocol_error" THEN "fatal"
  ELSE IF /\ pkt.m # ""
          /\ pkt.hasP
          /\ Len(pkt.p) > 0
          /\ pkt.p[1] # ""
          /\ pkt.p[1] \in sess
    THEN "session"
  ELSE "data"

\* Route with the test of #logged inverted
RouteInverted(pkt, sess, lg) ==
  IF pkt.t = "ping" THEN "ping"
  ELSE IF pkt.m = "protocol_error" THEN "fatal"
  ELSE IF /\ pkt.m # ""
          /\ pkt.hasP
          /\ Len(pkt.p) > 0
          /\ pkt.p[1] # ""
          /\ pkt.p[1] \in sess
    THEN "session"
  ELSE IF lg THEN "logged"
  ELSE "data"

\* the branch #parsePacket takes for one packet
Route(pkt, sess, lg) ==
  IF pkt.t = "ping" THEN "ping"
  ELSE IF pkt.m = "protocol_error" THEN "fatal"
  ELSE IF /\ pkt.m # ""
          /\ pkt.hasP
          /\ Len(pkt.p) > 0
          /\ pkt.p[1] # ""
          /\ pkt.p[1] \in sess
    THEN "session"
  ELSE IF ~lg THEN "logged"
  ELSE "data"

\* body of the forEach callback for the packet at position i; acc is
\* [rs, w, fx]: the socket state, the ws.send log and the effects so far
ParseOne(acc, pkt, i, sess, lg, obs) ==
  LET r == Route(pkt, sess, lg) IN
  CASE r = "ping" ->
         [rs |-> acc.rs,
          w |-> WsSend(acc.w, PongFrame(pkt.n), "pong", acc.rs, lg),
          fx |-> acc.fx \o << Effect("pong", i, "", "", pkt, acc.rs),
                             handleEvent("ping", i, pkt, acc.rs) >>]
    [] r = "fatal" ->
         [rs |-> WsClose(acc.rs),
          w |-> acc.w,
          fx |-> acc.fx \o << handleError(obs, i, pkt, acc.rs),
                             Effect("close", i, "", "", pkt, acc.rs) >>]
    [] r = "session" ->
         [rs |-> acc.rs,
          w |-> acc.w,
          fx |-> Append(acc.fx, Effect("onData", i, "", pkt.p[1], pkt,
                                        acc.rs))]
    [] r = "logged" ->
         [rs |-> acc.rs,
          w |-> acc.w,
          fx |-> Append(acc.fx, handleEvent("logged", i, pkt, acc.rs))]
    [] OTHER ->
         [rs |-> acc.rs,
          w |-> acc.w,
          fx |-> Append(acc.fx, handleEvent("data", i, pkt, acc.rs))]

\* protocol.parseWSPacket(str).forEach(...): every packet of the batch is
\* visited, from position i on; a return inside the callback ends that
\* packet only
RECURSIVE ParseFrom(_, _, _, _, _, _)
ParseFrom(acc, batch, i, sess, lg, obs) ==
  IF i > Len(batch) THEN acc
  ELSE ParseFrom(ParseOne(acc, batch[i], i, sess, lg, obs),
                 batch, i + 1, sess, lg, obs)

\* #parsePacket(str)
parsePacket(batch, rs, w, sess, lg, obs) ==
  IF ~isOpen(rs) THEN [rs |-> rs, w |-> w, fx |-> << >>]
  ELSE ParseFrom([rs |-> rs, w |-> w, fx |-> << >>], batch, 1, sess, lg, obs)

(* ------------------------------- Init --------------------------------- *)
\* the state at the end of the constructor
Init ==
  /\ mode \in {"anon", "token"}
  /\ cred = IF mode = "token" THEN "pending" ELSE "none"
  /\ readyState = CONNECTING
  /\ logged = (mode = "anon")
  /\ sendQueue = IF mode = "anon"
                   THEN Flush(Unshift(<< >>, AnonAuthFrame), << >>,
                              CONNECTING, TRUE).q
                   ELSE << >>
  /\ sessions = {}
  /\ callbacks = NoCallbacks
  /\ wire = << >>
  /\ fx = << >>
  /\ decoded = << >>
  /\ calls = << >>

\* send(t, p = [])
Send(t) ==
  /\ Len(calls) < MaxSends
  /\ Len(calls) < Len(SendTypes)
  /\ t = SendTypes[Len(calls) + 1]
  /\ LET f == Frame(t, << >>)
         r == Flush(Push(sendQueue, f), wire, readyState, logged)
     IN /\ sendQueue' = r.q
        /\ wire' = r.w
        /\ calls' = Append(calls, [frame |-> f, held |-> cred = "pending"])
  /\ fx' = << >>
  /\ decoded' = << >>
  /\ UNCHANGED << mode, cred, readyState, logged, sessions, callbacks >>

\* ws 'open' handler
WsOpen ==
  /\ readyState = CONNECTING
  /\ readyState' = OPEN
  /\ LET r == Flush(sendQueue, wire, OPEN, logged)
     IN /\ sendQueue' = r.q
        /\ wire' = r.w
        /\ fx' = << handleEvent("connected", 0, NoPacket, OPEN) >>
                   \o [k \in 1..(Len(r.w) - Len(wire)) |->
                         Effect("flush", 0, "", "", NoPacket, OPEN)]
  /\ decoded' = << >>
  /\ UNCHANGED << mode, cred, logged, sessions, callbacks, calls >>

\* ws 'close' handler; the socket reports CLOSED when it emits 'close'
WsCloseEvent ==
  /\ readyState # CLOSED
  /\ readyState' = CLOSED
  /\ logged' = FALSE
  /\ fx' = << handleEvent("disconnected", 0, NoPacket, CLOSED) >>
  /\ decoded' = << >>
  /\ UNCHANGED << mode, cred, sendQueue, sessions, callbacks, wire, calls >>

\* WsError that also closes the socket
WsErrorClosing ==
  /\ readyState # CLOSED
  /\ readyState' = WsClose(readyState)
  /\ fx' = << handleError(errObs, 0, NoPacket, readyState) >>
  /\ decoded' = << >>
  /\ UNCHANGED << mode, cred, logged, sendQueue, sessions, callbacks, wire,
                  calls >>

\* ws 'error' handler
WsError ==
  /\ readyState # CLOSED
  /\ fx' = << handleError(errObs, 0, NoPacket, readyState) >>
  /\ decoded' = << >>
  /\ UNCHANGED << mode, cred, readyState, logged, sendQueue, sessions,
                  callbacks, wire, calls >>

\* ws 'message' handler: one delivery, decoded into a batch of packets.
\* fx and decoded hold one delivery: the next delivery is taken once
\* another callback has run (a socket error changes nothing else), and the
\* pongs of all deliveries are capped by MaxPongs.
WsMessage(batch) ==
  /\ readyState \in {OPEN, CLOSING}
  /\ decoded = << >>
  /\ NumPongs(wire) + NumPings(batch) <= MaxPongs
  /\ LET r == parsePacket(batch, readyState, wire, sessions, logged, errObs)
     IN /\ readyState' = r.rs
        /\ wire' = r.w
        /\ fx' = r.fx
  /\ decoded' = IF isOpen(readyState) THEN batch ELSE << >>
  /\ UNCHANGED << mode, cred, logged, sendQueue, sessions, callbacks, calls >>

\* misc.getUser(...).then((user) => ...)
CredResolve ==
  /\ cred = "pending"
  /\ cred' = "resolved"
  /\ logged' = TRUE
  /\ LET r == Flush(Unshift(sendQueue, UserAuthFrame), wire, readyState, TRUE)
     IN /\ sendQueue' = r.q
        /\ wire' = r.w
  /\ fx' = << >>
  /\ decoded' = << >>
  /\ UNCHANGED << mode, readyState, sessions, callbacks, calls >>

\* misc.getUser(...).catch((err) => ...)
CredReject ==
  /\ cred = "pending"
  /\ cred' = "rejected"
  /\ fx' = << handleError(errObs, 0, NoPacket, readyState) >>
  /\ decoded' = << >>
  /\ UNCHANGED << mode, readyState, logged, sendQueue, sessions, callbacks,
                  wire, calls >>

\* the test of end(): readyState is used as a truth value
EndCloses(rs) == rs # 0

\* end(): the promise it returns is resolved (cb()) inside the call, right
\* after the test and the ws.close() it guards
End ==
  /\ readyState' = IF EndCloses(readyState) THEN WsClose(readyState)
                                            ELSE readyState
  /\ fx' = << >>
  /\ decoded' = << >>
  /\ UNCHANGED << mode, cred, logged, sendQueue, sessions, callbacks, wire,
                  calls >>

\* a session collaborator registers itself in the bridge's sessions
RegisterSession(s) ==
  /\ s \notin sessions
  /\ sessions' = sessions \cup {s}
  /\ fx' = << >>
  /\ decoded' = << >>
  /\ UNCHANGED << mode, cred, readyState, logged, sendQueue, callbacks, wire,
                  calls >>

\* a session collaborator removes itself from the bridge's sessions
UnregisterSession(s) ==
  /\ s \in sessions
  /\ sessions' = sessions \ {s}
  /\ fx' = << >>
  /\ decoded' = << >>
  /\ UNCHANGED << mode, cred, readyState, logged, sendQueue, callbacks, wire,
                  calls >>

\* onConnected(cb) .. onEvent(cb): the callback is pushed on the list of
\* its channel; an observer is named by its rank among all registrations
on(ch) ==
  /\ NumObservers(callbacks) < MaxObs
  /\ callbacks' = [callbacks EXCEPT
                     ![ch] = Append(@, NumObservers(callbacks) + 1)]
  /\ fx' = << >>
  /\ decoded' = << >>
  /\ UNCHANGED << mode, cred, readyState, logged, sendQueue, sessions, wire,
                  calls >>

\* onError(cb), for the first error observer
onError ==
  /\ ~errObs
  /\ on("error")

Next ==
  \/ \E t \in {SendTypes[k] : k \in 1..Len(SendTypes)} : Send(t)
  \/ WsOpen
  \/ WsCloseEvent
  \/ WsError
  \/ \E batch \in Batches : WsMessage(batch)
  \/ CredResolve
  \/ CredReject
  \/ End
  \/ \E s \in SessionIds : RegisterSession(s)
  \/ \E s \in SessionIds : UnregisterSession(s)
  \/ onError

Spec == Init /\ [][Next]_vars

\* the observer lists in full: every channel takes observers, and the
\* callbacks that dispatch run on deliveries of one packet, without send(),
\* end() and session registration
NextDispatch ==
  \/ \E ch \in Channels : on(ch)
  \/ WsOpen
  \/ WsCloseEvent
  \/ WsError
  \/ \E pkt \in Packets : WsMessage(<<pkt>>)
  \/ CredReject

SpecDispatch == Init /\ [][NextDispatch]_vars

(* ======================= properties of the client ===================== *)
\* the frames of a ws.send log
FramesOf(w) == [i \in 1..Len(w) |-> w[i].frame]

\* the ws.send calls made by sendQueue()
QueueWrites == SelectSeq(wire, LAMBDA e : e.via = "queue")

\* the effects caused by the packet at position i of the decoded batch
EffectsOf(i) == SelectSeq(fx, LAMBDA e : e.i = i)

\* C1 (flush gating): every frame that sendQueue() took from the send queue
\* and passed to ws.send was passed while the socket was OPEN and #logged
\* was true.
C1_FlushGated ==
  \A i \in 1..Len(wire) :
    wire[i].via = "queue" => (wire[i].rs = OPEN /\ wire[i].lg)

\* a frame given to send() has been flushed, after the auth frame
C1_Witness ==
  \E i \in 1..Len(wire) :
    /\ wire[i].via = "queue"
    /\ ~IsAuthFrame(wire[i].frame)
    /\ mode = "token"

\* C2 (queue ordering under pending auth): for a token-based client, while
\* the credential exchange is unresolved (or after it was rejected) the
\* queue holds exactly the frames of the send() calls, in call order, and
\* none was written; once it has resolved, the frames sendQueue() has
\* written followed by the frames still queued are the auth frame followed
\* by the frames of all send() calls in call order, and nothing stays
\* queued while the socket is open and #logged is true.
C2_QueueOrder ==
  mode = "token" =>
    /\ cred \in {"pending", "rejected"} =>
         (sendQueue = FramesOf(calls) /\ QueueWrites = << >>)
    /\ cred = "resolved" =>
         /\ FramesOf(QueueWrites) \o sendQueue
              = <<UserAuthFrame>> \o FramesOf(calls)
         /\ (readyState = OPEN /\ logged) => sendQueue = << >>

\* two different frames were sent while the exchange was pending, a third
\* call followed, and all have been written after the auth frame
C2_Witness ==
  /\ mode = "token"
  /\ cred = "resolved"
  /\ Len(calls) >= 2
  /\ calls[1].held /\ calls[2].held
  /\ calls[1].frame # calls[2].frame
  /\ Len(QueueWrites) = Len(calls) + 1
  /\ sendQueue = << >>

\* C3 as stated (auth frame first on the socket): the first frame ever
\* passed to ws.send is the set_auth_token frame.
C3_AuthFirstOnSocket ==
  Len(wire) > 0 => IsAuthFrame(wire[1].frame)

\* C3 as amended (auth frame first out of the queue): every frame passed to
\* ws.send before the set_auth_token frame is a pong auto-reply; the first
\* frame sendQueue() writes is the set_auth_token frame.
C3_AuthFirstFromQueue ==
  \A i \in 1..Len(wire) :
    (\A j \in 1..i : ~IsAuthFrame(wire[j].frame)) => wire[i].via = "pong"

\* a pong was written first, then the auth frame, then a send() frame
C3_Witness ==
  /\ Len(wire) >= 3
  /\ wire[1].via = "pong"
  /\ \E j \in 2..Len(wire) :
       /\ IsAuthFrame(wire[j].frame)
       /\ j < Len(wire)
       /\ wire[Len(wire)].via = "queue"

\* the packet at position i of the decoded batch is a Message other than
\* protocol_error
IsPlainMessage(i) ==
  decoded[i].t = "msg" /\ decoded[i].m # "protocol_error"

\* the first payload element of the packet at position i is present and is
\* a key of the session registry
HasRegisteredSession(i) ==
  /\ decoded[i].hasP
  /\ Len(decoded[i].p) > 0
  /\ decoded[i].p[1] \in sessions

\* C4 as stated (fatal protocol error): once a protocol_error packet of a
\* decoded batch has requested the socket close, no later packet of that
\* batch has any effect: no onData, no event, no pong, no second report.
C4_NothingRoutedAfterFatal ==
  \A a \in 1..Len(fx) : \A b \in 1..Len(fx) :
    fx[a].k = "close" => fx[b].i <= fx[a].i

\* C5 as stated (routing exclusivity): every Message other than
\* protocol_error whose first payload element is a registered session key
\* causes exactly one effect, the onData call of that session.
C5_RoutedToSessionOnly ==
  \A i \in 1..Len(decoded) :
    (IsPlainMessage(i) /\ HasRegisteredSession(i)) =>
      /\ Len(EffectsOf(i)) = 1
      /\ EffectsOf(i)[1].k = "onData"
      /\ EffectsOf(i)[1].sess = decoded[i].p[1]
      /\ EffectsOf(i)[1].pkt = decoded[i]

\* C5 as amended: every Message other than protocol_error that has a
\* non-empty type and whose first payload element is a non-empty registered
\* session key causes exactly one effect, the onData call of that session
\* with that packet's type and payload, whatever the value of #logged: no
\* data event, no logged event, no other session's handler.
C5_TypedRoutedToSessionOnly ==
  \A i \in 1..Len(decoded) :
    (/\ IsPlainMessage(i)
     /\ HasRegisteredSession(i)
     /\ decoded[i].m # ""
     /\ decoded[i].p[1] # "") =>
      /\ Len(EffectsOf(i)) = 1
      /\ EffectsOf(i)[1].k = "onData"
      /\ EffectsOf(i)[1].sess = decoded[i].p[1]
      /\ EffectsOf(i)[1].pkt = decoded[i]

\* a packet was delivered to its session while #logged was false and the
\* other session was registered too
C5_Witness ==
  /\ ~logged
  /\ sessions = SessionIds
  /\ \E a \in 1..Len(fx) : fx[a].k = "onData" /\ fx[a].sess = "s1"

\* C6 as stated (closed is unauthenticated): whenever the socket has
\* closed, #logged is false.
C6_ClosedIsUnauthenticated ==
  readyState = CLOSED => ~logged

\* C7 as stated (end closes the transport): a call of end() made while
\* the socket is not closed leaves the socket closing or closed.
C7_EndClosesTransport ==
  [][(End /\ readyState # CLOSED) => readyState' \in {CLOSING, CLOSED}]_vars

\* C8 (no resurrection after close): once the socket has closed it stays
\* closed, no step passes a frame to ws.send, and no step takes a frame out
\* of the send queue.
C8_NoWriteAfterClose ==
  [][readyState = CLOSED =>
       /\ readyState' = CLOSED
       /\ wire' = wire
       /\ Len(sendQueue') >= Len(sendQueue)]_vars

\* the credential exchange resolved after the close: the auth frame and a
\* send() frame are queued, #logged is true, nothing was ever written
C8_Witness ==
  /\ readyState = CLOSED
  /\ cred = "resolved"
  /\ logged
  /\ Len(sendQueue) >= 2
  /\ IsAuthFrame(sendQueue[1])
  /\ wire = << >>

\* C9 (unrouted message classification): every decoded Message other than
\* protocol_error that was not delivered to a session handler causes
\* exactly one effect: the dispatch of logged when #logged is false, of
\* data when #logged is true.
C9_UnroutedClassified ==
  \A i \in 1..Len(decoded) :
    (/\ IsPlainMessage(i)
     /\ \A a \in 1..Len(fx) : ~(fx[a].i = i /\ fx[a].k = "onData")) =>
      /\ Len(EffectsOf(i)) = 1
      /\ EffectsOf(i)[1].k = "event"
      /\ EffectsOf(i)[1].ev = (IF logged THEN "data" ELSE "logged")
      /\ EffectsOf(i)[1].pkt = decoded[i]

\* an unrouted message was dispatched as logged
C9_Witness ==
  /\ ~logged
  /\ \E a \in 1..Len(fx) :
       fx[a].k = "event" /\ fx[a].ev = "logged" /\ fx[a].pkt.t = "msg"

\* C10 as stated (ping handling): every decoded Ping(n) causes exactly two
\* effects, in this order: the pong for n written to the open socket, and
\* the dispatch of ping with n.
C10_PingPongedOnOpenSocket ==
  \A i \in 1..Len(decoded) :
    decoded[i].t = "ping" =>
      EffectsOf(i) = << Effect("pong", i, "", "", decoded[i], OPEN),
                        handleEvent("ping", i, decoded[i], OPEN) >>

\* the effects of the most recent callback that report an error
ErrorReports ==
  SelectSeq(fx, LAMBDA e : e.ev = "error" /\ e.k \in {"event", "console"})

\* C11 (credential error is permanent): the step that rejects the
\* credential exchange reports exactly one error; from then on the exchange
\* stays rejected, #logged is false, sendQueue() has written no frame and
\* the queue holds the frames of all send() calls.
C11_CredentialErrorPermanent ==
  [][/\ CredReject => Len(ErrorReports') = 1
     /\ cred = "rejected" => cred' = "rejected"
     /\ cred' = "rejected" =>
          /\ ~logged'
          /\ QueueWrites' = << >>
          /\ sendQueue' = FramesOf(calls')]_vars

\* after the rejection the socket is open, two frames were sent and an
\* inbound message was processed
C11_Witness ==
  /\ cred = "rejected"
  /\ readyState = OPEN
  /\ Len(sendQueue) = 2
  /\ Len(decoded) > 0

\* C12 as stated (end() resolves when the socket is closed): the promise of
\* end() is resolved inside the call, so the socket is closed at the end of
\* every call of end().
C12_EndResolvesWhenClosed ==
  [][End => readyState' = CLOSED]_vars

\* the auth frame the constructor has put in the queue so far, if any
AuthEnqueued ==
  IF mode = "anon" THEN <<AnonAuthFrame>>
  ELSE IF cred = "resolved" THEN <<UserAuthFrame>>
  ELSE << >>

\* C13 (no queued frame is lost or duplicated): after every step the
\* frames sendQueue() has written followed by the frames still queued are
\* the auth frame (once it is enqueued) followed by the frames of all
\* send() calls, each once and in call order; a step that does not end
\* with the socket open and #logged true writes no queued frame and takes
\* none out of the queue.
C13_NoFrameLostOrDuplicated ==
  [][/\ FramesOf(QueueWrites') \o sendQueue'
          = AuthEnqueued' \o FramesOf(calls')
     /\ ~(readyState' = OPEN /\ logged') =>
          /\ QueueWrites' = QueueWrites
          /\ Len(sendQueue') >= Len(sendQueue)]_vars

\* the auth frame and a send() frame were written, the socket closed, and
\* a later send() frame is still queued
C13_Witness ==
  /\ readyState = CLOSED
  /\ Len(QueueWrites) = 2
  /\ Len(sendQueue) = 1
  /\ ~IsAuthFrame(sendQueue[1])

\* the calls c are the observers of list ch, in registration order, each
\* once, with the channel name nm and the data d
CallsInOrder(c, ch, nm, d) ==
  /\ Len(c) = Len(callbacks[ch])
  /\ \A i \in 1..Len(c) :
       /\ c[i].obs = callbacks[ch][i]
       /\ c[i].list = ch
       /\ c[i].name = nm
       /\ c[i].data = d

\* C14 (error reporting with fallback): a socket error and a credential
\* error make one report, a protocol_error packet makes one report; when
\* an error observer is registered a report calls every error observer and
\* then every catch-all observer, in registration order, and never
\* console.error; when none is registered it calls console.error once and
\* no observer.
C14_ErrorReportedOnce ==
  /\ (Len(fx) > 0 /\ fx[1].i = 0 /\ fx[1].ev = "error") =>
       (Len(fx) = 1 /\ fx[1].k \in {"event", "console"})
  /\ \A i \in 1..Len(decoded) :
       decoded[i].m = "protocol_error" =>
         Len(SelectSeq(ErrorReports, LAMBDA e : e.i = i)) = 1
  /\ \A a \in 1..Len(ErrorReports) :
       LET c == Calls(callbacks, ErrorReports[a])
           ne == Len(callbacks["error"])
           nv == Len(callbacks["event"])
           d == ErrorReports[a].pkt
       IN IF ne > 0
            THEN /\ Len(c) = ne + nv
                 /\ CallsInOrder(SubSeq(c, 1, ne), "error", "", d)
                 /\ CallsInOrder(SubSeq(c, ne + 1, ne + nv), "event",
                                 "error", d)
            ELSE /\ Len(c) = 1
                 /\ c[1].list = "console"
                 /\ c[1].data = d

\* an error was reported to two error observers and a catch-all observer
C14_Witness ==
  /\ Len(ErrorReports) > 0
  /\ Len(callbacks["error"]) = 2
  /\ Len(callbacks["event"]) = 1

C16_SocketErrorKeepsState ==
  [][WsError =>
       /\ logged' = logged
       /\ sendQueue' = sendQueue
       /\ sessions' = sessions
       /\ callbacks' = callbacks
       /\ readyState' = readyState
       /\ wire' = wire
       /\ Len(fx') = 1
       /\ Len(ErrorReports') = 1]_vars

\* a socket error was reported on an open, logged socket with frames
\* written, while the credential exchange was not rejected
C16_Witness ==
  /\ Len(fx) = 1
  /\ Len(ErrorReports) = 1
  /\ fx[1].i = 0
  /\ cred # "rejected"
  /\ readyState = OPEN
  /\ logged
  /\ Len(wire) >= 2

\* C17 (socket-open step): the 'open' handler dispatches connected first
\* and flushes after it: when #logged is true the whole queue, which
\* starts with the auth frame, is passed to ws.send in queue order inside
\* the callback and the queue is left empty; when #logged is false nothing
\* is written and the queue is unchanged.
C17_OpenDispatchesThenFlushes ==
  [][WsOpen =>
       /\ Len(fx') >= 1
       /\ fx'[1].k = "event" /\ fx'[1].ev = "connected"
       /\ \A a \in 2..Len(fx') : fx'[a].k = "flush"
       /\ logged =>
            /\ Len(fx') = 1 + Len(sendQueue)
            /\ sendQueue' = << >>
            /\ Len(wire') = Len(wire) + Len(sendQueue)
            /\ \A a \in 1..Len(sendQueue) :
                 /\ wire'[Len(wire) + a].frame = sendQueue[a]
                 /\ wire'[Len(wire) + a].via = "queue"
                 /\ wire'[Len(wire) + a].rs = OPEN
            /\ Len(sendQueue) > 0 => IsAuthFrame(sendQueue[1])
       /\ ~logged =>
            /\ Len(fx') = 1
            /\ sendQueue' = sendQueue
            /\ wire' = wire]_vars

\* the socket has just opened: connected was dispatched, then the auth
\* frame and two send() frames were written
C17_Witness ==
  /\ Len(fx) = 4
  /\ fx[1].ev = "connected"
  /\ fx[2].k = "flush"
  /\ readyState = OPEN
  /\ Len(wire) = 3
  /\ IsAuthFrame(wire[1].frame)
  /\ sendQueue = << >>

\* C18 (quiescent drain): at the end of every callback and public call, if
\* the socket is open and #logged is true, the send queue is empty.
C18_DrainedWhenOpenAndLogged ==
  (readyState = OPEN /\ logged) => sendQueue = << >>

\* the socket is open and logged with an empty queue after three frames
\* were flushed by one 'open' callback
C18_Witness ==
  /\ readyState = OPEN
  /\ logged
  /\ sendQueue = << >>
  /\ Len(QueueWrites) = 3
  /\ Len(fx) = 4
  /\ fx[4].k = "flush"

\* the number of set_auth_token frames in the sequence of frames q
NumAuthFrames(q) == Cardinality({a \in 1..Len(q) : IsAuthFrame(q[a])})

\* C19 (single auth handshake): after every step at most one auth frame
\* has been enqueued (counting the frames written and the frames queued)
\* and at most one was written; an anonymous client is logged from
\* construction; a token-based client is not logged and has enqueued no
\* auth frame while the credential exchange has not resolved; the only
\* step that changes #logged from false to true is the successful
\* resolution of the credential exchange, which happens at most once.
C19_SingleAuthHandshake ==
  [][/\ NumAuthFrames(FramesOf(QueueWrites') \o sendQueue') <= 1
     /\ NumAuthFrames(FramesOf(wire')) <= 1
     /\ mode' = "anon" =>
          NumAuthFrames(FramesOf(QueueWrites') \o sendQueue') = 1
     /\ (mode' = "token" /\ cred' # "resolved") =>
          /\ ~logged'
          /\ NumAuthFrames(FramesOf(wire') \o sendQueue') = 0
     /\ (~logged /\ logged') =>
          /\ mode = "token"
          /\ cred = "pending"
          /\ cred' = "resolved"
          /\ NumAuthFrames(FramesOf(wire) \o sendQueue) = 0
          /\ NumAuthFrames(FramesOf(wire') \o sendQueue') = 1
     /\ cred = "resolved" => cred' = "resolved"]_vars

\* the credential exchange resolved after two send() calls, the auth frame
\* and both frames were written, and the socket has closed since
C19_Witness ==
  /\ mode = "token"
  /\ cred = "resolved"
  /\ readyState = CLOSED
  /\ ~logged
  /\ Len(calls) = 2
  /\ calls[1].held /\ calls[2].held
  /\ NumAuthFrames(FramesOf(wire)) = 1
  /\ Len(QueueWrites) = 3

\* C20 (anonymous clients never emit logged): for a client constructed
\* without a token, #logged is true until the socket has closed, no
\* callback dispatches a logged event, and every decoded Message other
\* than protocol_error that was not delivered to a session handler causes
\* exactly one effect, the dispatch of data with that packet.
C20_AnonymousNeverLogged ==
  mode = "anon" =>
    /\ readyState # CLOSED => logged
    /\ \A a \in 1..Len(fx) : fx[a].ev # "logged"
    /\ \A i \in 1..Len(decoded) :
         (/\ IsPlainMessage(i)
          /\ \A a \in 1..Len(fx) : ~(fx[a].i = i /\ fx[a].k = "onData")) =>
           /\ Len(EffectsOf(i)) = 1
           /\ EffectsOf(i)[1].k = "event"
           /\ EffectsOf(i)[1].ev = "data"
           /\ EffectsOf(i)[1].pkt = decoded[i]

\* an anonymous client received, as the first inbound batch after the auth
\* frame was written, a message that no session took, and dispatched data
C20_Witness ==
  /\ mode = "anon"
  /\ readyState = OPEN
  /\ sessions = {}
  /\ Len(wire) = 1
  /\ IsAuthFrame(wire[1].frame)
  /\ Len(decoded) = 1
  /\ decoded[1].t = "msg"
  /\ fx = << handleEvent("data", 1, decoded[1], OPEN) >>
====
